---- MODULE Spec2Model ----
(***************************************************************************)
(* A model of the routing-and-scheduling core of wa_llm:                   *)
(*   - src/src/summarize_and_send_to_groups/__init__.py: the retried       *)
(*     summarize call, the per-group workflow summarize_and_send_to_group  *)
(*     and the fan-out summarize_and_send_to_groups (specifications Spec,  *)
(*     SpecFanout and SpecCycles);                                         *)
(*   - src/src/handler/router.py: Router.__call__, Router._route and the   *)
(*     four handlers (specification SpecRouter);                           *)
(*   - src/src/utils/azure_openai_embed_text.py: the batched embedding     *)
(*     call (specification SpecEmbed).                                     *)
(* Every await of the code is one step of the model: the remote call it    *)
(* waits for returns or raises, chosen nondeterministically, and the code  *)
(* that runs up to the next await is part of the same step.                *)
(***************************************************************************)
EXTENDS Integers, Sequences, FiniteSets

\* ---------------------------------------------------------------- bounds
NumGroups == 2
MaxClock == 1
MaxCommunity == 2
MaxNewMsgs == 1

\* ------------------------------------------------------ program constants
\* stop_after_attempt(6)
MaxAttempts == 6
\* if len(messages) < 15
Threshold == 15
\* .limit(30) of the on-demand summary
QueryLimit == 30

Groups == 1..NumGroups
Time == 0..MaxClock

\* ------------------------------------------------------- model errors
\* The payloads (e.body) a ModelHTTPError may carry, named by what they hold.
Bodies == {"content_filter", "ResponsibleAIPolicyViolation", "Content_Filter", "rate_limit"}

\* str(e.body), character by character.
Payload(body) ==
    CASE body = "content_filter" ->
           <<"c", "o", "d", "e", ":", "c", "o", "n", "t", "e", "n", "t", "_", "f", "i", "l", "t", "e", "r">>
      [] body = "Content_Filter" ->
           <<"C", "o", "n", "t", "e", "n", "t", "_", "F", "i", "l", "t", "e", "r">>
      [] body = "ResponsibleAIPolicyViolation" ->
           <<"i", "n", "n", "e", "r", "e", "r", "r", "o", "r", ":", "R", "e", "s", "p", "o", "n", "s", "i", "b", "l", "e", "A", "I", "P", "o", "l", "i", "c", "y", "V", "i", "o", "l", "a", "t", "i", "o", "n">>
      [] OTHER ->
           <<"r", "a", "t", "e", "_", "l", "i", "m", "i", "t", "_", "e", "x", "c", "e", "e", "d", "e", "d">>

UpperCase ==
    <<"A", "B", "C", "D", "E", "F", "G", "H", "I", "J", "K", "L", "M", "N", "O", "P", "Q", "R", "S", "T", "U", "V", "W", "X", "Y", "Z">>

LowerCase ==
    <<"a", "b", "c", "d", "e", "f", "g", "h", "i", "j", "k", "l", "m", "n", "o", "p", "q", "r", "s", "t", "u", "v", "w", "x", "y", "z">>

LowerChar(c) ==
    IF \E i \in 1..Len(UpperCase) : UpperCase[i] = c
    THEN LowerCase[CHOOSE i \in 1..Len(UpperCase) : UpperCase[i] = c]
    ELSE c

\* The payload compared without .lower().
LowerMissing(s) ==
    s

\* str.lower()
Lower(s) ==
    [i \in 1..Len(s) |-> LowerChar(s[i])]

\* sub in s
Contains(sub, s) ==
    \E k \in 0..(Len(s) - Len(sub)) : \A j \in 1..Len(sub) : s[k + j] = sub[j]

ContentFilterMarker ==
    <<"c", "o", "n", "t", "e", "n", "t", "_", "f", "i", "l", "t", "e", "r">>

ResponsibleAIMarker ==
    <<"r", "e", "s", "p", "o", "n", "s", "i", "b", "l", "e", "a", "i", "p", "o", "l", "i", "c", "y", "v", "i", "o", "l", "a", "t", "i", "o", "n">>

\* "content_filter" in str(e.body).lower() or "responsibleaipolicyviolation" in ...
IsContentFiltered(body) ==
    \/ Contains(ContentFilterMarker, Lower(Payload(body)))
    \/ Contains(ResponsibleAIMarker, Lower(Payload(body)))

\* What a failed agent.run raises: a ModelHTTPError with a body, or another Exception.
ModelErrors == [kind : {"http"}, body : Bodies] \cup {[kind |-> "exc", body |-> "none"]}

NoError == [kind |-> "none", body |-> "none"]

VARIABLES
    clock,              \* datetime.now()
    msgs,               \* msgs[g]: the stored messages of group g, [ts, mine]
    newMsgs,            \* messages stored since Init
    managed,            \* Group.managed
    community,          \* number of community groups linked to g
    last_summary_sync,  \* Group.last_summary_sync of the session's Group objects
    committed_sync,     \* Group.last_summary_sync as committed to the database
    dirty,              \* groups added to the session and not yet committed
    sched_pc,           \* position of summarize_and_send_to_groups
    ran,                \* the fan-out has been called before
    tasks,              \* the groups of the tasks list of the current run
    errsLogged,         \* groups whose exception the fan-out logged
    t,                  \* t[g]: the coroutine summarize_and_send_to_group of g
    r,                  \* the Router invocation
    emb,                \* the azure_openai_embed_text invocation
    summarized          \* summarized[g]: the messages of g a generated summary was given

vars == <<clock, msgs, newMsgs, managed, community, last_summary_sync,
          committed_sync, dirty, sched_pc, ran, tasks, errsLogged, t, r, emb, summarized>>

schedVars == <<clock, msgs, newMsgs, managed, community, last_summary_sync,
               committed_sync, dirty, sched_pc, ran, tasks, errsLogged, t,
               summarized>>

\* ------------------------------------------------------------- helpers
\* The coroutine of a group no task was created for.
NoTask ==
    [pc |-> "none", sync0 |-> 0, wmRead |-> 0, queried |-> FALSE, fetched |-> {},
     attempts |-> 0, usedLastAttempt |-> FALSE, genOK |-> FALSE, finalFailure |-> NoError, engineErr |-> NoError,
     mainSend |-> "none", lookup |-> "none", cgSent |-> <<>>,
     advances |-> 0, commits |-> 0, jidCalls |-> 0, logs |-> {},
     prevSkipped |-> FALSE, prevWindow |-> {}]

\* The coroutine of g returned before the try statement of the sends: it found
\* fewer than 15 messages, or summarize() failed for good.
Skipped(task) ==
    task.pc = "done" /\ task.queried /\ ~task.genOK

\* The coroutine object created by the list comprehension, not yet run. It is
\* told what the cycle before it fetched when that cycle was skipped.
NewTask(g) ==
    [NoTask EXCEPT !.pc = "start", !.sync0 = committed_sync[g],
                   !.prevSkipped = Skipped(t[g]),
                   !.prevWindow = IF Skipped(t[g]) THEN t[g].fetched ELSE {}]

\* select(Message).where(group_jid == g).where(timestamp >= wm).where(sender_jid != my_jid)
Qualifying(g, wm) ==
    {i \in 1..Len(msgs[g]) : msgs[g][i].ts >= wm /\ ~msgs[g][i].mine}

\* The coroutine of g is suspended in an operation of the session it was passed:
\* session.exec(stmt), group.get_related_community_groups(session) or
\* session.commit(). Every task of a run is passed the same session.
SessionBusy(g) ==
    t[g].pc \in {"query", "lookup", "commit"}

\* if len(messages) < 15
BelowThresholdOffByOne(n) ==
    n <= Threshold

BelowThreshold(n) ==
    n < Threshold

\* stop=stop_after_attempt(6)
RetryStopEarly(n) ==
    n >= MaxAttempts - 1

RetryStop(n) ==
    n >= MaxAttempts

\* asyncio.gather(*tasks, return_exceptions=True): the exception of a task is
\* collected as its result, the awaiting fan-out is not resumed with it.
OnTaskExceptionPropagate ==
    IF sched_pc = "gather" THEN "raised" ELSE sched_pc

OnTaskException ==
    sched_pc

\* The task of g ends with an exception no handler of the workflow catches.
Raise(g, task) ==
    /\ t' = [t EXCEPT ![g] = [task EXCEPT !.pc = "raised"]]
    /\ sched_pc' = OnTaskException

\* The watermark written from a clock reading that lags by one.
FinallyLagging(g, task) ==
    /\ last_summary_sync' = [last_summary_sync EXCEPT ![g] = clock - 1]
    /\ dirty' = dirty \cup {g}
    /\ t' = [t EXCEPT ![g] = [task EXCEPT !.pc = "commit", !.advances = @ + 1]]

\* finally: group.last_summary_sync = datetime.now(); session.add(group);
\* then the coroutine awaits session.commit().
Finally(g, task) ==
    /\ last_summary_sync' = [last_summary_sync EXCEPT ![g] = clock]
    /\ dirty' = dirty \cup {g}
    /\ t' = [t EXCEPT ![g] = [task EXCEPT !.pc = "commit", !.advances = @ + 1]]

\* A return that leaves the try statement of the sends behind without its finally
\* clause: the returns before line 92.
Return(g, task) ==
    /\ t' = [t EXCEPT ![g] = [task EXCEPT !.pc = "done"]]
    /\ UNCHANGED <<last_summary_sync, dirty>>

\* The branch with fewer than 15 messages leaving through the finally clause.
NotEnoughAdvance(g, task) ==
    Finally(g, [task EXCEPT !.logs = @ \cup {"info_not_enough"}])

\* The branch taken with fewer than 15 messages: log and return.
NotEnoughFallThrough(g, task) ==
    /\ t' = [t EXCEPT ![g] = [task EXCEPT !.pc = "gen", !.logs = @ \cup {"info_not_enough"}]]
    /\ UNCHANGED <<last_summary_sync, dirty>>

NotEnough(g, task) ==
    Return(g, [task EXCEPT !.logs = @ \cup {"info_not_enough"}])

\* The except clauses around summarize(): log and return, whatever the error.
ExceptSummarizeFallThrough(g, task, err) ==
    Finally(g, [task EXCEPT !.engineErr = err, !.logs = @ \cup {"error_summarizing"}])

ExceptSummarize(g, task, err) ==
    Return(g, [task EXCEPT
        !.engineErr = err,
        !.logs = @ \cup {IF err.kind = "http" /\ IsContentFiltered(err.body)
                         THEN "warning_content_filtered"
                         ELSE IF err.kind = "http" THEN "error_model_http"
                         ELSE "error_summarizing"}])

\* except Exception around the sends: log, then the finally clause.
ExceptSendReturn(g, task) ==
    Return(g, [task EXCEPT !.logs = @ \cup {"error_sending"}])

ExceptSend(g, task) ==
    Finally(g, [task EXCEPT !.logs = @ \cup {"error_sending"}])

\* ---------------------------------------------------------------- Init
InitialMsgs(n) ==
    [i \in 1..(n + 1) |-> [ts |-> 0, mine |-> (i = n + 1)]]

\* No Router invocation is in progress.
NoRouter ==
    [pc |-> "none", hasText |-> FALSE, chat |-> "none", id |-> 0, history |-> 0,
     route |-> "none", routeErr |-> NoError, routeRaised |-> FALSE,
     classifierCalls |-> 0, modelCalls |-> 0, queried |-> FALSE, messages |-> 0,
     modelErr |-> NoError, handlers |-> <<>>, sends |-> <<>>, logs |-> {}]

\* No invocation of azure_openai_embed_text yet.
NoEmbed ==
    [pc |-> "none", input |-> <<>>, i |-> 0, embeddings |-> <<>>, calls |-> <<>>,
     result |-> <<>>, providerErr |-> "none", raised |-> "none"]

\* The state before any run. Group g holds n[g] messages of other senders and one
\* of the assistant, all stamped 0; no watermark has been advanced yet.
InitWith(m, c, n) ==
    /\ clock = 0
    /\ msgs = [g \in Groups |-> InitialMsgs(n[g])]
    /\ newMsgs = 0
    /\ managed = m
    /\ community = c
    /\ last_summary_sync = [g \in Groups |-> 0]
    /\ committed_sync = [g \in Groups |-> 0]
    /\ dirty = {}
    /\ sched_pc = "idle"
    /\ ran = FALSE
    /\ tasks = {}
    /\ errsLogged = {}
    /\ t = [g \in Groups |-> NoTask]
    /\ r = NoRouter
    /\ emb = NoEmbed
    /\ summarized = [g \in Groups |-> {}]

\* Scheduled cycles of one group: group 1 is managed or none is.
Init ==
    \E m \in [Groups -> BOOLEAN], c \in [Groups -> 0..MaxCommunity],
       k \in {Threshold - 1, Threshold} :
        /\ \A g \in Groups : m[g] => g = 1
        /\ \A g \in Groups : ~m[g] => c[g] = 0
        /\ InitWith(m, c, [g \in Groups |-> k])

\* One fan-out run over any set of managed groups.
InitFanout ==
    \E m \in [Groups -> BOOLEAN], n \in [Groups -> {Threshold - 1, Threshold}] :
        InitWith(m, [g \in Groups |-> g % (MaxCommunity + 1)], n)

\* Scheduled cycles with groups 1 and 2 managed or not, each with enough
\* messages; group 1 has one community group.
InitCycles ==
    \E m \in [Groups -> BOOLEAN] :
        /\ \A g \in Groups : m[g] => g <= 2
        /\ InitWith(m, [g \in Groups |-> IF g = 1 THEN 1 ELSE 0],
                    [g \in Groups |-> Threshold])

\* One fan-out run with groups 1 and 2 managed or not, each below or at the
\* threshold; group 1 has one community group.
InitFair ==
    \E m \in [Groups -> BOOLEAN], n \in [Groups -> {Threshold - 1, Threshold}] :
        /\ \A g \in Groups : m[g] => g <= 2
        /\ \A g \in Groups : g > 2 => n[g] = Threshold
        /\ InitWith(m, [g \in Groups |-> IF g = 1 THEN 1 ELSE 0], n)

\* ------------------------------------------------------ the environment
\* Time passes.
Tick ==
    /\ clock < MaxClock
    /\ clock' = clock + 1
    /\ UNCHANGED <<msgs, newMsgs, managed, community, last_summary_sync,
                   committed_sync, dirty, sched_pc, ran, tasks, errsLogged, t, r, emb, summarized>>

\* A message of another sender arrives in group g and is stored.
StoreMessage(g) ==
    /\ newMsgs < MaxNewMsgs
    /\ newMsgs' = newMsgs + 1
    /\ msgs' = [msgs EXCEPT ![g] = Append(@, [ts |-> clock, mine |-> FALSE])]
    /\ UNCHANGED <<clock, managed, community, last_summary_sync,
                   committed_sync, dirty, sched_pc, ran, tasks, errsLogged, t, r, emb, summarized>>

\* ------------------------------------------- summarize_and_send_to_groups
\* The select without its where clause.
EveryGroup ==
    Groups

\* select(Group).where(Group.managed == True)
ManagedGroups ==
    {g \in Groups : managed[g]}

\* groups = await session.exec(select(Group).where(Group.managed == True)) and the
\* list of coroutines. The Group objects carry the committed last_summary_sync.
Enumerate(again) ==
    /\ sched_pc \in {"idle", "done", "raised"}
    /\ \A g \in Groups : t[g].pc \in {"none", "done", "raised"}
    /\ ran => again
    /\ ran' = TRUE
    /\ errsLogged' = {}
    /\ \/ /\ sched_pc' = "gather"
          /\ tasks' = ManagedGroups
          /\ t' = [g \in Groups |-> IF g \in ManagedGroups THEN NewTask(g) ELSE NoTask]
          /\ last_summary_sync' = committed_sync
          /\ dirty' = {}
       \/ /\ sched_pc' = "raised"
          /\ tasks' = {}
          /\ t' = [g \in Groups |-> NoTask]
          /\ UNCHANGED <<last_summary_sync, dirty>>
    /\ UNCHANGED <<clock, msgs, newMsgs, managed, community, committed_sync, r, emb, summarized>>

\* The scheduled trigger calls the fan-out, cycle after cycle.
StartRun ==
    Enumerate(TRUE)

\* The fan-out is called once.
StartFanout ==
    Enumerate(FALSE)

\* errs = await asyncio.gather(...): resumed when every task has ended; then each
\* collected exception is logged.
GatherDone ==
    /\ sched_pc = "gather"
    /\ \A g \in tasks : t[g].pc \in {"done", "raised"}
    /\ sched_pc' = "done"
    /\ errsLogged' = {g \in tasks : t[g].pc = "raised"}
    /\ UNCHANGED <<clock, msgs, newMsgs, managed, community, last_summary_sync,
                   committed_sync, dirty, ran, tasks, t, r, emb, summarized>>

\* ------------------------------------------- summarize_and_send_to_group
\* The query is built up to group.last_summary_sync (line 68), then the coroutine
\* awaits whatsapp.get_my_jid() (line 69), which returns or raises.
GetMyJid(g) ==
    /\ t[g].pc = "start"
    /\ LET task == [t[g] EXCEPT !.wmRead = last_summary_sync[g], !.jidCalls = @ + 1]
       IN \/ /\ t' = [t EXCEPT ![g] = [task EXCEPT !.pc = "query"]]
             /\ UNCHANGED sched_pc
          \/ Raise(g, task)
    /\ UNCHANGED <<clock, msgs, newMsgs, managed, community, last_summary_sync,
                   committed_sync, dirty, ran, tasks, errsLogged, r, emb, summarized>>

\* resp = await session.exec(...); messages = list(resp.all()); the threshold test.
FetchMessages(g) ==
    /\ t[g].pc = "query"
    /\ \/ LET found == Qualifying(g, t[g].wmRead)
              task == [t[g] EXCEPT !.queried = TRUE, !.fetched = found]
          IN /\ IF BelowThreshold(Cardinality(found))
                THEN NotEnough(g, task)
                ELSE /\ t' = [t EXCEPT ![g] = [task EXCEPT !.pc = "gen"]]
                     /\ UNCHANGED <<last_summary_sync, dirty>>
             /\ UNCHANGED sched_pc
       \/ /\ Raise(g, t[g])
          /\ UNCHANGED <<last_summary_sync, dirty>>
    /\ UNCHANGED <<clock, msgs, newMsgs, managed, community,
                   committed_sync, ran, tasks, errsLogged, r, emb, summarized>>

\* A retry that never stops: the attempt number wraps instead of ending the call.
SummarizeUnbounded(g) ==
    /\ t[g].pc = "gen"
    /\ \/ /\ t' = [t EXCEPT ![g] = [@ EXCEPT
                    !.attempts = 0, !.usedLastAttempt = (t[g].attempts + 1 = MaxAttempts),
                    !.genOK = TRUE, !.pc = "send"]]
          /\ summarized' = [summarized EXCEPT ![g] = @ \cup t[g].fetched]
       \/ /\ t' = [t EXCEPT ![g] = [@ EXCEPT !.attempts = (@ + 1) % (MaxAttempts - 1)]]
          /\ UNCHANGED summarized
    /\ UNCHANGED <<clock, msgs, newMsgs, managed, community, last_summary_sync, dirty,
                   committed_sync, sched_pc, ran, tasks, errsLogged, r, emb>>

\* One attempt of the retried summarize(): agent.run returns, or raises and the
\* retry policy either sleeps for the next attempt or re-raises (reraise=True) to
\* the except clauses of the workflow. attempts is the attempt number the retry
\* policy keeps (the failed attempts so far); it lives as long as the retried call,
\* which leaves behind only whether it ended on its last attempt. The messages
\* handed to a call that returned are recorded in summarized.
Summarize(g) ==
    /\ t[g].pc = "gen"
    /\ \/ /\ t' = [t EXCEPT ![g] = [@ EXCEPT
                    !.attempts = 0, !.usedLastAttempt = (t[g].attempts + 1 = MaxAttempts),
                    !.genOK = TRUE, !.pc = "send"]]
          /\ summarized' = [summarized EXCEPT ![g] = @ \cup t[g].fetched]
          /\ UNCHANGED <<last_summary_sync, dirty>>
       \/ /\ \E err \in ModelErrors :
                IF RetryStop(t[g].attempts + 1)
                THEN ExceptSummarize(g, [t[g] EXCEPT
                        !.attempts = 0, !.usedLastAttempt = (t[g].attempts + 1 = MaxAttempts),
                        !.finalFailure = err], err)
                ELSE /\ t' = [t EXCEPT ![g] = [@ EXCEPT !.attempts = @ + 1]]
                     /\ UNCHANGED <<last_summary_sync, dirty>>
          /\ UNCHANGED summarized
    /\ UNCHANGED <<clock, msgs, newMsgs, managed, community,
                   committed_sync, sched_pc, ran, tasks, errsLogged, r, emb>>

\* The watermark written as soon as the group has its summary, ahead of the
\* community groups.
SendToGroupAdvanceFirst(g) ==
    /\ t[g].pc = "send"
    /\ \/ /\ t' = [t EXCEPT ![g] = [@ EXCEPT !.mainSend = "ok", !.pc = "lookup",
                                             !.advances = @ + 1]]
          /\ last_summary_sync' = [last_summary_sync EXCEPT ![g] = clock]
          /\ dirty' = dirty \cup {g}
       \/ ExceptSend(g, [t[g] EXCEPT !.mainSend = "failed"])
    /\ UNCHANGED <<clock, msgs, newMsgs, managed, community,
                   committed_sync, sched_pc, ran, tasks, errsLogged, r, emb, summarized>>

\* await whatsapp.send_message(SendMessageRequest(phone=group.group_jid, ...))
SendToGroup(g) ==
    /\ t[g].pc = "send"
    /\ \/ /\ t' = [t EXCEPT ![g] = [@ EXCEPT !.mainSend = "ok", !.pc = "lookup"]]
          /\ UNCHANGED <<last_summary_sync, dirty>>
       \/ ExceptSend(g, [t[g] EXCEPT !.mainSend = "failed"])
    /\ UNCHANGED <<clock, msgs, newMsgs, managed, community,
                   committed_sync, sched_pc, ran, tasks, errsLogged, r, emb, summarized>>

\* community_groups = await group.get_related_community_groups(session); a for
\* loop over no group falls through to the finally clause.
GetCommunityGroups(g) ==
    /\ t[g].pc = "lookup"
    /\ \/ LET task == [t[g] EXCEPT !.lookup = "ok"]
          IN IF community[g] = 0
             THEN Finally(g, task)
             ELSE /\ t' = [t EXCEPT ![g] = [task EXCEPT !.pc = "send_cg"]]
                  /\ UNCHANGED <<last_summary_sync, dirty>>
       \/ ExceptSend(g, [t[g] EXCEPT !.lookup = "failed"])
    /\ UNCHANGED <<clock, msgs, newMsgs, managed, community,
                   committed_sync, sched_pc, ran, tasks, errsLogged, r, emb, summarized>>

\* for cg in community_groups: await whatsapp.send_message(...), one iteration.
SendToCommunityGroup(g) ==
    /\ t[g].pc = "send_cg"
    /\ \/ LET task == [t[g] EXCEPT !.cgSent = Append(@, "ok")]
          IN IF Len(task.cgSent) = community[g]
             THEN Finally(g, task)
             ELSE /\ t' = [t EXCEPT ![g] = task]
                  /\ UNCHANGED <<last_summary_sync, dirty>>
       \/ ExceptSend(g, [t[g] EXCEPT !.cgSent = Append(@, "failed")])
    /\ UNCHANGED <<clock, msgs, newMsgs, managed, community,
                   committed_sync, sched_pc, ran, tasks, errsLogged, r, emb, summarized>>

\* await session.commit(): the shared session flushes every object added to it.
Commit(g) ==
    /\ t[g].pc = "commit"
    /\ LET task == [t[g] EXCEPT !.commits = @ + 1]
       IN \/ /\ t' = [t EXCEPT ![g] = [task EXCEPT !.pc = "done"]]
             /\ committed_sync' = [h \in Groups |->
                    IF h \in dirty THEN last_summary_sync[h] ELSE committed_sync[h]]
             /\ dirty' = {}
             /\ UNCHANGED sched_pc
          \/ /\ Raise(g, task)
             /\ UNCHANGED <<committed_sync, dirty>>
    /\ UNCHANGED <<clock, msgs, newMsgs, managed, community, last_summary_sync,
                   ran, tasks, errsLogged, r, emb, summarized>>

\* ------------------------------------------------------------------ Spec
Next ==
    \/ Tick
    \/ \E g \in Groups : StoreMessage(g)
    \/ StartRun
    \/ GatherDone
    \/ \E g \in Groups : GetMyJid(g)
    \/ \E g \in Groups : FetchMessages(g)
    \/ \E g \in Groups : Summarize(g)
    \/ \E g \in Groups : SendToGroup(g)
    \/ \E g \in Groups : GetCommunityGroups(g)
    \/ \E g \in Groups : SendToCommunityGroup(g)
    \/ \E g \in Groups : Commit(g)

Spec ==
    Init /\ [][Next]_vars

NextFanout ==
    \/ StartFanout
    \/ GatherDone
    \/ \E g \in Groups : GetMyJid(g)
    \/ \E g \in Groups : FetchMessages(g)
    \/ \E g \in Groups : Summarize(g)
    \/ \E g \in Groups : SendToGroup(g)
    \/ \E g \in Groups : GetCommunityGroups(g)
    \/ \E g \in Groups : SendToCommunityGroup(g)
    \/ \E g \in Groups : Commit(g)

SpecFanout ==
    InitFanout /\ [][NextFanout]_vars

\* Fan-out runs that follow each other while time passes.
NextCycles ==
    \/ Tick
    \/ StartRun
    \/ GatherDone
    \/ \E g \in Groups : GetMyJid(g)
    \/ \E g \in Groups : FetchMessages(g)
    \/ \E g \in Groups : Summarize(g)
    \/ \E g \in Groups : SendToGroup(g)
    \/ \E g \in Groups : GetCommunityGroups(g)
    \/ \E g \in Groups : SendToCommunityGroup(g)
    \/ \E g \in Groups : Commit(g)

SpecCycles ==
    InitCycles /\ [][NextCycles]_vars

\* A step of the workflow of g: the remote call it awaits returns or raises.
Workflow(g) ==
    \/ GetMyJid(g)
    \/ FetchMessages(g)
    \/ Summarize(g)
    \/ SendToGroup(g)
    \/ GetCommunityGroups(g)
    \/ SendToCommunityGroup(g)
    \/ Commit(g)

\* One fan-out run in which every awaited call ends: a workflow that can take a
\* step takes one, and gather is resumed once all tasks have ended.
SpecFair ==
    /\ InitFair
    /\ [][NextFanout]_vars
    /\ \A g \in Groups : WF_vars(Workflow(g))
    /\ WF_vars(GatherDone)

\* ----------------------------------------------------------------- Router
IntentEnum == {"summarize", "ask_question", "about", "other"}

Chats == {"chat_a", "chat_b"}

MessageIds == {1, 2}

\* The number of messages of the chat stamped within the last 24 hours.
HistorySizes == {0, 1, QueryLimit, QueryLimit + 1}

Min(a, b) ==
    IF a < b THEN a ELSE b

\* BaseHandler.send_message(chat_jid, text, in_reply_to): one transport send, which
\* returns or raises to the handler that awaits it.
SendMessage(rt, text, ok) ==
    [rt EXCEPT !.sends = Append(@, [to |-> rt.chat, text |-> text,
                                    reply_to |-> rt.id, ok |-> ok])]

\* The statement of a handler that follows the await it is resumed from; match
\* route: case ...: the first await of the chosen handler is its next step.
Dispatch(rt, intent) ==
    [rt EXCEPT !.route = intent,
               !.handlers = Append(@, intent),
               !.pc = CASE intent = "summarize" -> "summarize_query"
                        [] intent = "ask_question" -> "ask_knowledge_base"
                        [] intent = "about" -> "about"
                        [] OTHER -> "default_response"]

\* except ModelHTTPError in _route: the content-filter test, else log and raise.
RouteHttpError(rt, err) ==
    IF IsContentFiltered(err.body)
    THEN Dispatch([rt EXCEPT !.routeErr = err,
                             !.logs = @ \cup {"warning_content_filtered"}], "other")
    ELSE [rt EXCEPT !.routeErr = err, !.logs = @ \cup {"error_model_http"},
                    !.routeRaised = TRUE, !.pc = "raised"]

\* Router.__call__ is awaited with a message: without text it logs and returns,
\* with text it awaits self._route(message.text).
Call ==
    /\ r.pc \in {"none", "returned", "raised"}
    /\ \E hasText \in BOOLEAN, chat \in Chats, id \in MessageIds, n \in HistorySizes :
          LET rt == [NoRouter EXCEPT !.hasText = hasText, !.chat = chat, !.id = id,
                                     !.history = n]
          IN r' = IF hasText
                  THEN [rt EXCEPT !.pc = "route"]
                  ELSE [rt EXCEPT !.pc = "returned", !.logs = {"warning_no_text"}]
    /\ UNCHANGED <<schedVars, emb>>

\* Router._route: result = await agent.run(message) and its except clauses.
Route ==
    /\ r.pc = "route"
    /\ LET rt == [r EXCEPT !.classifierCalls = @ + 1]
       IN \/ \E intent \in IntentEnum : r' = Dispatch(rt, intent)
          \/ \E body \in Bodies : r' = RouteHttpError(rt, [kind |-> "http", body |-> body])
          \/ r' = Dispatch([rt EXCEPT !.routeErr = [kind |-> "exc", body |-> "none"],
                                      !.logs = @ \cup {"error_unexpected"}], "other")
    /\ UNCHANGED <<schedVars, emb>>

\* The test taken as never true.
NoMessagesNever(n) ==
    FALSE

\* if not messages
NoMessages(n) ==
    n = 0

\* Router.summarize: res = await self.session.exec(stmt), outside any try.
SummarizeQuery ==
    /\ r.pc = "summarize_query"
    /\ \/ r' = [r EXCEPT !.queried = TRUE,
                         !.messages = Min(r.history, QueryLimit),
                         !.pc = IF NoMessages(Min(r.history, QueryLimit))
                                THEN "summarize_empty" ELSE "summarize_model"]
       \/ r' = [r EXCEPT !.pc = "raised"]
    /\ UNCHANGED <<schedVars, emb>>

\* if not messages: await self.send_message(..."No messages found..."); return
SummarizeEmpty ==
    /\ r.pc = "summarize_empty"
    /\ \/ r' = [SendMessage(r, "no_messages", TRUE) EXCEPT !.pc = "returned"]
       \/ r' = [SendMessage(r, "no_messages", FALSE) EXCEPT !.pc = "raised"]
    /\ UNCHANGED <<schedVars, emb>>

\* except ModelHTTPError in Router.summarize: the content-filter test chooses the
\* apology the clause then sends.
SummarizeHttpError(rt, err) ==
    IF IsContentFiltered(err.body)
    THEN [rt EXCEPT !.modelErr = err, !.logs = @ \cup {"warning_content_filtered"},
                    !.pc = "summarize_policy_apology"]
    ELSE [rt EXCEPT !.modelErr = err, !.logs = @ \cup {"error_model_http"},
                    !.pc = "summarize_http_apology"]

\* response = await agent.run(...) inside the try of Router.summarize.
SummarizeModel ==
    /\ r.pc = "summarize_model"
    /\ LET rt == [r EXCEPT !.modelCalls = @ + 1]
       IN \/ r' = [rt EXCEPT !.pc = "summarize_reply"]
          \/ \E body \in Bodies :
                r' = SummarizeHttpError(rt, [kind |-> "http", body |-> body])
          \/ r' = [rt EXCEPT !.modelErr = [kind |-> "exc", body |-> "none"],
                             !.logs = @ \cup {"error_unexpected"},
                             !.pc = "summarize_unexpected_apology"]
    /\ UNCHANGED <<schedVars, emb>>

\* await self.send_message(chat, response.output, id) inside the try: a failing
\* send is caught by except Exception, which sends the unexpected-error apology.
SummarizeReply ==
    /\ r.pc = "summarize_reply"
    /\ \/ r' = [SendMessage(r, "summary", TRUE) EXCEPT !.pc = "returned"]
       \/ r' = [SendMessage(r, "summary", FALSE) EXCEPT
                   !.logs = @ \cup {"error_unexpected"},
                   !.pc = "summarize_unexpected_apology"]
    /\ UNCHANGED <<schedVars, emb>>

\* The send of an except clause of Router.summarize; no handler encloses it.
SummarizeApology ==
    /\ r.pc \in {"summarize_policy_apology", "summarize_http_apology",
                 "summarize_unexpected_apology"}
    /\ LET text == CASE r.pc = "summarize_policy_apology" -> "policy_apology"
                     [] r.pc = "summarize_http_apology" -> "http_apology"
                     [] OTHER -> "unexpected_apology"
       IN \/ r' = [SendMessage(r, text, TRUE) EXCEPT !.pc = "returned"]
          \/ r' = [SendMessage(r, text, FALSE) EXCEPT !.pc = "raised"]
    /\ UNCHANGED <<schedVars, emb>>

\* await self.ask_knowledge_base(message): the collaborator answers and returns.
AskKnowledgeBase ==
    /\ r.pc = "ask_knowledge_base"
    /\ r' = [r EXCEPT !.pc = "returned"]
    /\ UNCHANGED <<schedVars, emb>>

\* Router.about
About ==
    /\ r.pc = "about"
    /\ \/ r' = [SendMessage(r, "about", TRUE) EXCEPT !.pc = "returned"]
       \/ r' = [SendMessage(r, "about", FALSE) EXCEPT !.pc = "raised"]
    /\ UNCHANGED <<schedVars, emb>>

\* Router.default_response
DefaultResponse ==
    /\ r.pc = "default_response"
    /\ \/ r' = [SendMessage(r, "fallback", TRUE) EXCEPT !.pc = "returned"]
       \/ r' = [SendMessage(r, "fallback", FALSE) EXCEPT !.pc = "raised"]
    /\ UNCHANGED <<schedVars, emb>>

InitRouter ==
    InitWith([g \in Groups |-> FALSE], [g \in Groups |-> 0], [g \in Groups |-> Threshold])

NextRouter ==
    \/ Call
    \/ Route
    \/ SummarizeQuery
    \/ SummarizeEmpty
    \/ SummarizeModel
    \/ SummarizeReply
    \/ SummarizeApology
    \/ AskKnowledgeBase
    \/ About
    \/ DefaultResponse

SpecRouter ==
    InitRouter /\ [][NextRouter]_vars

\* ============================================ azure_openai_embed_text
\* batch_size = 100
BatchSize == 100

\* The longest input list of an invocation.
MaxTexts == 250

\* The input lists: N texts, each told apart by its position.
Inputs == {[k \in 1..n |-> k] : n \in 0..MaxTexts}

\* The failures embedding_client.embeddings.create may raise.
ProviderErrors == {"rate_limit", "timeout"}

\* The vector the provider computes for a text.
Vector(x) ==
    <<x, x + 1>>

\* response.data of embeddings.create(input=batch): one entry per text of the
\* request, in request order.
ResponseData(batch) ==
    [k \in 1..Len(batch) |-> [index |-> k - 1, embedding |-> Vector(batch[k])]]

\* A slice that stops one text early.
BatchShort(input, i) ==
    SubSeq(input, i + 1, Min(i + BatchSize - 1, Len(input)))

\* batch = input[i : i + batch_size]
Batch(input, i) ==
    SubSeq(input, i + 1, Min(i + BatchSize, Len(input)))

\* The failure caught and the vectors collected so far returned.
OnCreateErrorPartial(em, err) ==
    [em EXCEPT !.pc = "returned", !.result = em.embeddings]

\* No try encloses the await: the exception of embeddings.create leaves the
\* function as it is, and the local list embeddings is dropped.
OnCreateError(em, err) ==
    [em EXCEPT !.pc = "raised", !.raised = err]

\* azure_openai_embed_text(client, input, model_name) is awaited: embeddings = [],
\* and the loop over range(0, len(input), batch_size) reaches its first await, or
\* return embeddings when the range is empty.
EmbedText ==
    /\ emb.pc \in {"none", "returned", "raised"}
    /\ \E input \in Inputs :
          emb' = IF Len(input) = 0
                 THEN [NoEmbed EXCEPT !.input = input, !.pc = "returned"]
                 ELSE [NoEmbed EXCEPT !.input = input, !.pc = "create"]
    /\ UNCHANGED <<schedVars, r>>

\* response = await embedding_client.embeddings.create(model, input=batch) returns
\* or raises; on return the vectors are appended and the loop continues with the
\* next i, or ends with return embeddings.
Create ==
    /\ emb.pc = "create"
    /\ LET batch == Batch(emb.input, emb.i)
           em == [emb EXCEPT !.calls = Append(@, batch)]
           batch_embeddings == [k \in 1..Len(batch) |-> ResponseData(batch)[k].embedding]
           embeddings == emb.embeddings \o batch_embeddings
       IN \/ emb' = IF emb.i + BatchSize < Len(emb.input)
                    THEN [em EXCEPT !.embeddings = embeddings, !.i = @ + BatchSize]
                    ELSE [em EXCEPT !.embeddings = embeddings, !.result = embeddings,
                                    !.pc = "returned"]
          \/ \E err \in ProviderErrors :
                emb' = OnCreateError([em EXCEPT !.providerErr = err], err)
    /\ UNCHANGED <<schedVars, r>>

InitEmbed ==
    InitWith([g \in Groups |-> FALSE], [g \in Groups |-> 0], [g \in Groups |-> 0])

NextEmbed ==
    \/ EmbedText
    \/ Create

SpecEmbed ==
    InitEmbed /\ [][NextEmbed]_vars

\* ================================================================ claims
Ended == {"done", "raised"}

AfterSends == {"commit", "done", "raised"}

\* C1: Router._route never raises: a classifier failure that is not
\* content-moderation-classified resolves to the intent other.
C1_RouteNeverRaises ==
    /\ ~r.routeRaised
    /\ (r.routeErr # NoError /\ ~(r.routeErr.kind = "http" /\ IsContentFiltered(r.routeErr.body)))
          => r.route = "other"

\* C2: Router.__call__ returns normally for every outcome of its calls, and every
\* branch ends in a sent message or a logged no-op.
C2_CallNeverRaises ==
    /\ r.pc # "raised"
    /\ r.pc = "returned" =>
          \/ \E i \in 1..Len(r.sends) : r.sends[i].ok
          \/ r.logs # {}
          \/ r.route = "ask_question"

\* C3: in a scheduled cycle the watermark of a group (the field, and its committed
\* value) is advanced only if the generation call of that cycle succeeded.
C3_AdvanceOnlyAfterGeneration ==
    \A g \in tasks :
        (\/ t[g].advances > 0
         \/ last_summary_sync[g] # t[g].sync0
         \/ committed_sync[g] # t[g].sync0
         \/ g \in dirty)
        => t[g].genOK

\* C3 witness: a cycle generated a summary, advanced the watermark past its old
\* value and committed it.
C3_Witness ==
    \E g \in tasks :
        /\ t[g].genOK
        /\ t[g].advances = 1
        /\ last_summary_sync[g] > t[g].sync0
        /\ committed_sync[g] = last_summary_sync[g]

\* What a cycle holds during and after the retried generation call.
C4_RetryState ==
    \A g \in tasks :
        /\ t[g].attempts < MaxAttempts
        /\ t[g].attempts > 0 => t[g].pc = "gen"
        /\ t[g].pc \in {"start", "query", "gen", "send"} =>
              /\ t[g].mainSend = "none"
              /\ t[g].advances = 0
        /\ (t[g].genOK /\ t[g].pc \notin {"send"}) => t[g].mainSend # "none"
        /\ (t[g].genOK /\ t[g].pc \in AfterSends) => t[g].advances = 1
        /\ t[g].genOK => t[g].engineErr = NoError
        /\ t[g].engineErr # NoError =>
              /\ t[g].pc = "done"
              /\ t[g].usedLastAttempt
              /\ t[g].engineErr = t[g].finalFailure
              /\ t[g].mainSend = "none"
              /\ t[g].cgSent = <<>>
              /\ t[g].advances = 0
              /\ t[g].commits = 0

\* What one attempt of the generation call leads to.
C4_RetryStep ==
    \A g \in Groups :
        (t[g].pc = "gen" /\ t'[g] # t[g]) =>
            \/ /\ t'[g].pc = "gen"
               /\ t'[g].attempts = t[g].attempts + 1
               /\ ~t'[g].genOK
            \/ /\ t'[g].pc = "send"
               /\ t'[g].genOK
               /\ t'[g].usedLastAttempt = (t[g].attempts = MaxAttempts - 1)
            \/ /\ t'[g].pc = "done"
               /\ t[g].attempts = MaxAttempts - 1
               /\ t'[g].engineErr \in ModelErrors

\* C4: the generation call is attempted until it succeeds or has failed 6 times.
\* After a failed attempt n < 6 the next attempt follows; a success on attempt k
\* ends the retries and the cycle makes exactly one send to the group and one
\* watermark advance; the 6th failure is re-raised to the workflow, whatever its
\* kind, and the cycle makes no send and no advance.
C4_RetryThenSendOnce ==
    []C4_RetryState /\ [][C4_RetryStep]_vars

\* C4 witness: a cycle whose generation succeeded on the 6th attempt has ended
\* with one send to the group, one advance and one commit.
C4_Witness ==
    \E g \in tasks :
        /\ t[g].pc = "done"
        /\ t[g].genOK
        /\ t[g].usedLastAttempt
        /\ t[g].mainSend = "ok"
        /\ t[g].advances = 1
        /\ t[g].commits = 1

\* C5: when generation succeeded, a failed send does not prevent the sends to the
\* other destinations: every destination has been sent to when the sends are over.
C5_AllDestinationsAttempted ==
    \A g \in tasks :
        (t[g].genOK /\ t[g].pc \in AfterSends /\ t[g].lookup # "failed") =>
            /\ t[g].mainSend # "none"
            /\ Len(t[g].cgSent) = community[g]

\* Past the sends of a generated summary: one advance, then one commit.
C6_AdvancedAndCommitted ==
    \A g \in tasks :
        /\ (t[g].genOK /\ t[g].pc \in AfterSends) => t[g].advances = 1
        /\ (t[g].genOK /\ t[g].pc \in Ended) => t[g].commits = 1
        /\ (t[g].genOK /\ t[g].pc = "done") => committed_sync[g] = last_summary_sync[g]

\* The advance writes the current time; every exit of the sends makes it.
C6_AdvanceStep ==
    \A g \in Groups :
        /\ t'[g].advances > t[g].advances =>
              /\ last_summary_sync'[g] = clock
              /\ g \in dirty'
              /\ t'[g].pc = "commit"
        /\ (t[g].genOK /\ t[g].pc \in {"send", "lookup", "send_cg"}
               /\ t'[g].pc \notin {"send", "lookup", "send_cg"}) =>
              t'[g].advances = t[g].advances + 1

\* C6: when generation succeeded, the watermark is set to the current time and a
\* commit is issued, whatever failed among the sends and the lookup.
C6_AdvanceWhateverTheSends ==
    []C6_AdvancedAndCommitted /\ [][C6_AdvanceStep]_vars

\* C6 witness: the send to the group failed, and the watermark was advanced to
\* the current time and committed all the same.
C6_Witness ==
    \E g \in tasks :
        /\ t[g].pc = "done"
        /\ t[g].genOK
        /\ t[g].mainSend = "failed"
        /\ t[g].commits = 1
        /\ last_summary_sync[g] = MaxClock
        /\ committed_sync[g] = MaxClock

\* Every managed group has a task; the fan-out ends when all tasks ended, and
\* raises only when the enumeration of the groups failed.
C7_AllStartedAndAwaited ==
    /\ sched_pc \in {"gather", "done"} =>
          /\ tasks = {g \in Groups : managed[g]}
          /\ \A g \in tasks : t[g].pc # "none"
    /\ sched_pc = "raised" => tasks = {}
    /\ sched_pc = "done" =>
          /\ \A g \in tasks :
                /\ t[g].pc \in Ended
                /\ t[g].genOK => (t[g].advances = 1 /\ t[g].commits = 1)
          /\ errsLogged = {g \in tasks : t[g].pc = "raised"}

\* A task that raises changes neither a sibling nor the awaiting fan-out.
C7_RaiseStep ==
    \A g \in Groups :
        (t'[g].pc = "raised" /\ t[g].pc # "raised") =>
            /\ \A h \in Groups \ {g} : t'[h] = t[h]
            /\ sched_pc' = sched_pc

\* C7: a fan-out run starts the workflow of every managed group; a workflow that
\* raises changes nothing of its siblings and does not resume the fan-out, which
\* ends only when all have ended, with every raised exception logged, not raised.
C7_FanoutIsolatesFailures ==
    []C7_AllStartedAndAwaited /\ [][C7_RaiseStep]_vars

\* C7 witness: the fan-out returned after one workflow raised (and was logged)
\* and a sibling generated, advanced and committed.
C7_Witness ==
    /\ sched_pc = "done"
    /\ \E g \in tasks, h \in tasks :
          /\ g # h
          /\ t[g].pc = "raised"
          /\ g \in errsLogged
          /\ t[h].pc = "done"
          /\ t[h].genOK
          /\ t[h].advances = 1
          /\ t[h].commits = 1

\* C8: the workflow of a group never raises to its caller, and when it has
\* returned either a summary was generated and the watermark advanced or the
\* state of the group is unchanged.
C8_WorkflowNeverRaises ==
    \A g \in tasks :
        /\ t[g].pc # "raised"
        /\ t[g].pc = "done" =>
              \/ t[g].genOK /\ t[g].advances = 1
              \/ /\ t[g].advances = 0
                 /\ last_summary_sync[g] = t[g].sync0
                 /\ committed_sync[g] = t[g].sync0

\* Below the threshold the cycle has ended without effect; at or above it the
\* cycle is in, or past, the generation call.
C9_ThresholdState ==
    \A g \in tasks :
        t[g].queried =>
            IF Cardinality(t[g].fetched) < Threshold
            THEN /\ t[g].pc = "done"
                 /\ t[g].attempts = 0
                 /\ ~t[g].genOK
                 /\ t[g].engineErr = NoError
                 /\ t[g].mainSend = "none"
                 /\ t[g].cgSent = <<>>
                 /\ t[g].commits = 0
                 /\ t[g].advances = 0
                 /\ last_summary_sync[g] = t[g].sync0
                 /\ committed_sync[g] = t[g].sync0
            ELSE \/ t[g].pc \in {"gen", "send", "lookup", "send_cg", "commit"}
                 \/ t[g].genOK
                 \/ t[g].engineErr # NoError

\* The fetched messages are those stamped at or after the watermark and not sent
\* by the assistant.
C9_FetchStep ==
    \A g \in Groups :
        (~t[g].queried /\ t'[g].queried) =>
            t'[g].fetched = {i \in 1..Len(msgs[g]) :
                                /\ msgs[g][i].ts >= last_summary_sync[g]
                                /\ ~msgs[g][i].mine}

\* C9: a cycle that fetched fewer than 15 qualifying messages (timestamp >=
\* watermark, sender not the assistant) ends with no model call, no send, no
\* commit and the watermark unchanged; with 15 or more it goes on to generation.
C9_BelowThresholdNoEffect ==
    []C9_ThresholdState /\ [][C9_FetchStep]_vars

\* C9 witness: a group holding 15 messages, 14 of them qualifying, was skipped.
C9_Witness ==
    \E g \in tasks :
        /\ t[g].pc = "done"
        /\ t[g].queried
        /\ Cardinality(t[g].fetched) = Threshold - 1
        /\ Len(msgs[g]) >= Threshold

\* C10 as stated: a cycle below the threshold calls neither the model nor the
\* transport client, its self-identity lookup included.
C10_NoRemoteCalls ==
    \A g \in tasks :
        (t[g].queried /\ Cardinality(t[g].fetched) < Threshold) =>
            /\ t[g].attempts = 0
            /\ ~t[g].genOK
            /\ t[g].engineErr = NoError
            /\ t[g].mainSend = "none"
            /\ t[g].cgSent = <<>>
            /\ t[g].jidCalls = 0

\* C10 amended: a cycle below the threshold makes no model call and no transport
\* send; its one call of the transport client is the self-identity lookup that
\* the message query is built with.
C10_OnlyIdentityLookup ==
    \A g \in tasks :
        (t[g].queried /\ Cardinality(t[g].fetched) < Threshold) =>
            /\ t[g].attempts = 0
            /\ ~t[g].genOK
            /\ t[g].engineErr = NoError
            /\ t[g].mainSend = "none"
            /\ t[g].lookup = "none"
            /\ t[g].cgSent = <<>>
            /\ t[g].jidCalls = 1

\* C10 witness: a run ended in which a cycle below the threshold made its one
\* identity lookup.
C10_Witness ==
    \E g \in tasks :
        /\ t[g].pc = "done"
        /\ t[g].queried
        /\ Cardinality(t[g].fetched) < Threshold
        /\ t[g].jidCalls = 1
        /\ sched_pc = "done"

\* The payloads that hold a content-moderation marker in some letter case.
C11_ModerationPayloads == {"content_filter", "Content_Filter", "ResponsibleAIPolicyViolation"}

\* The classifier call of the message in hand failed with a moderation payload.
C11_Moderated ==
    /\ r.routeErr.kind = "http"
    /\ r.routeErr.body \in C11_ModerationPayloads

\* C11: when the classifier call fails with a payload holding "content_filter" or
\* "ResponsibleAIPolicyViolation" in any letter case, _route returns other without
\* raising and the Router sends exactly one fallback reply, to the chat of the
\* message and threaded to its id.
C11_ModeratedClassifierFallsBack ==
    C11_Moderated =>
        /\ ~r.routeRaised
        /\ r.route = "other"
        /\ r.handlers = <<"other">>
        /\ r.pc \in {"default_response", "returned", "raised"}
        /\ r.pc = "default_response" => r.sends = <<>>
        /\ r.pc \in {"returned", "raised"} =>
              /\ Len(r.sends) = 1
              /\ r.sends[1].text = "fallback"
              /\ r.sends[1].to = r.chat
              /\ r.sends[1].reply_to = r.id

\* C11 witness: the classifier failed with a mixed-case moderation payload and the
\* fallback reply was delivered.
C11_Witness ==
    /\ r.routeErr = [kind |-> "http", body |-> "ResponsibleAIPolicyViolation"]
    /\ r.pc = "returned"
    /\ r.sends = <<[to |-> r.chat, text |-> "fallback", reply_to |-> r.id, ok |-> TRUE]>>

\* C12: a message without text triggers no classifier call, no handler and no
\* send; a message with text triggers exactly one classifier call and then exactly
\* one handler, the one of the returned intent.
C12_SingleDispatch ==
    r.pc \in {"returned", "raised"} =>
        IF r.hasText
        THEN /\ r.classifierCalls = 1
             /\ Len(r.handlers) = 1
             /\ r.handlers[1] = r.route
        ELSE /\ r.classifierCalls = 0
             /\ r.handlers = <<>>
             /\ r.sends = <<>>

\* The number of batches of n texts.
C13_CeilDiv(n, d) ==
    (n + d - 1) \div d

\* C13: with a provider that answers every request with one vector per text in
\* request order, azure_openai_embed_text returns exactly N vectors in input order
\* after exactly ceil(N / 100) provider calls, the j-th on the j-th contiguous run
\* of at most 100 texts.
C13_AllVectorsInOrder ==
    (emb.pc = "returned" /\ emb.providerErr = "none") =>
        LET N == Len(emb.input)
        IN /\ Len(emb.result) = N
           /\ \A k \in 1..N : emb.result[k] = Vector(emb.input[k])
           /\ Len(emb.calls) = C13_CeilDiv(N, BatchSize)
           /\ \A j \in 1..Len(emb.calls) :
                 /\ Len(emb.calls[j]) \in 1..BatchSize
                 /\ emb.calls[j] = SubSeq(emb.input, (j - 1) * BatchSize + 1,
                                          Min(j * BatchSize, N))

\* C13 witness: a list that is longer than two batches and not a multiple of the
\* batch size was embedded.
C13_Witness ==
    /\ emb.pc = "returned"
    /\ Len(emb.input) > 2 * BatchSize
    /\ Len(emb.input) % BatchSize # 0
    /\ Len(emb.calls) = 3
    /\ Len(emb.result) = Len(emb.input)

\* What an invocation holds once a provider call has failed.
C14_FailureState ==
    /\ emb.providerErr # "none" =>
          /\ emb.pc = "raised"
          /\ emb.raised = emb.providerErr
          /\ emb.result = <<>>
          /\ Len(emb.calls) = (emb.i \div BatchSize) + 1
          /\ emb.calls[Len(emb.calls)] = Batch(emb.input, emb.i)
    /\ emb.pc = "raised" => emb.providerErr # "none"

\* The invocation that raised issues no further provider call.
C14_FailureStep ==
    (emb.pc = "raised" /\ emb' # emb) => (emb'.calls = <<>> /\ emb'.providerErr = "none")

\* C14: when the provider call of batch j fails, azure_openai_embed_text raises
\* that failure as it is, returns nothing (the vectors of the batches before j are
\* lost with it) and calls the provider for no batch after j.
C14_BatchFailurePropagates ==
    []C14_FailureState /\ [][C14_FailureStep]_vars

\* C14 witness: the second of three batches failed after the first was embedded.
C14_Witness ==
    /\ emb.pc = "raised"
    /\ emb.raised = "rate_limit"
    /\ Len(emb.input) > 2 * BatchSize
    /\ Len(emb.embeddings) = BatchSize
    /\ Len(emb.calls) = 2

\* The sends of the invocation are one message with this text, to the chat of the
\* requesting message and threaded to its id.
C15_OneReply(text) ==
    /\ Len(r.sends) = 1
    /\ r.sends[1].text = text
    /\ r.sends[1].to = r.chat
    /\ r.sends[1].reply_to = r.id

\* C15: when the model call of the on-demand summarization fails with a
\* moderation payload exactly one policy apology is sent, when it fails in any
\* other way exactly one generic apology is sent, each threaded to the requesting
\* message; in neither case does the operation raise; the summary is sent only
\* after a model call that succeeded.
C15_SummarizeFailurePolicy ==
    /\ (r.modelErr # NoError /\ r.pc \in {"returned", "raised"}) =>
          /\ IF r.modelErr.kind = "http" /\ r.modelErr.body \in C11_ModerationPayloads
             THEN C15_OneReply("policy_apology")
             ELSE IF r.modelErr.kind = "http"
                  THEN C15_OneReply("http_apology")
                  ELSE C15_OneReply("unexpected_apology")
          /\ r.pc = "returned"
    /\ r.modelErr # NoError =>
          /\ r.modelCalls = 1
          /\ r.pc \in {"summarize_policy_apology", "summarize_http_apology",
                       "summarize_unexpected_apology", "returned", "raised"}
          /\ r.pc \notin {"returned", "raised"} => r.sends = <<>>
    /\ \A k \in 1..Len(r.sends) :
          r.sends[k].text = "summary" => (r.modelCalls = 1 /\ r.modelErr = NoError)

\* C16: an on-demand summarization whose query finds no message of the chat in
\* the last 24 hours sends exactly one "no messages" reply, to the requesting chat
\* and threaded to the requesting message, and calls no language model; that
\* reply is sent in no other case.
C16_NothingToSummarize ==
    /\ (r.route = "summarize" /\ r.queried /\ r.history = 0) =>
          /\ r.modelCalls = 0
          /\ r.pc \in {"summarize_empty", "returned", "raised"}
          /\ r.pc = "summarize_empty" => r.sends = <<>>
          /\ r.pc \in {"returned", "raised"} =>
                /\ Len(r.sends) = 1
                /\ r.sends[1].text = "no_messages"
                /\ r.sends[1].to = r.chat
                /\ r.sends[1].reply_to = r.id
    /\ \A k \in 1..Len(r.sends) :
          r.sends[k].text = "no_messages" => (r.queried /\ r.history = 0)

\* C16 witness: the chat held no message and the reply was delivered.
C16_Witness ==
    /\ r.route = "summarize"
    /\ r.queried
    /\ r.history = 0
    /\ r.pc = "returned"
    /\ r.sends = <<[to |-> r.chat, text |-> "no_messages", reply_to |-> r.id,
                    ok |-> TRUE]>>

\* C17: during a fan-out run no two per-group units have a query or a commit in
\* flight on the same persistence session at the same time.
C17_SessionNeverShared ==
    \A g \in tasks, h \in tasks :
        g # h => ~(SessionBusy(g) /\ SessionBusy(h))

\* Every send of the cycle of g has been attempted, or abandoned after a failure.
C18_SendsOver(g) ==
    /\ t[g].mainSend # "none"
    /\ \/ t[g].mainSend = "failed"
       \/ t[g].lookup = "failed"
       \/ /\ t[g].lookup = "ok"
          /\ \/ Len(t[g].cgSent) = community[g]
             \/ (t[g].cgSent # <<>> /\ t[g].cgSent[Len(t[g].cgSent)] = "failed")

\* What a cycle holds of the steps before the one it is at.
C18_OrderState ==
    \A g \in tasks :
        /\ (t[g].attempts > 0 \/ t[g].genOK \/ t[g].finalFailure # NoError) => t[g].queried
        /\ t[g].mainSend # "none" => t[g].genOK
        /\ (t[g].lookup # "none" \/ t[g].cgSent # <<>>) => t[g].mainSend = "ok"
        /\ t[g].cgSent # <<>> => t[g].lookup = "ok"
        /\ (\A k \in 1..(Len(t[g].cgSent) - 1) : t[g].cgSent[k] = "ok")
        /\ (t[g].advances > 0 \/ last_summary_sync[g] # t[g].sync0) =>
              /\ t[g].advances = 1
              /\ t[g].genOK
              /\ C18_SendsOver(g)

\* The watermark is written by the step that ends the sends, and the cycle
\* fetches, generates and sends nothing after it.
C18_OrderStep ==
    \A g \in tasks :
        /\ last_summary_sync'[g] # last_summary_sync[g] =>
              \/ g \notin tasks'
              \/ t'[g].advances = 0
              \/ (t[g].advances = 0 /\ t'[g].advances = 1 /\ t[g].pc \in {"send", "lookup", "send_cg"})
        /\ (t[g].advances > 0 /\ g \in tasks' /\ t'[g].advances > 0) =>
              /\ t'[g].fetched = t[g].fetched
              /\ t'[g].genOK = t[g].genOK
              /\ t'[g].mainSend = t[g].mainSend
              /\ t'[g].lookup = t[g].lookup
              /\ t'[g].cgSent = t[g].cgSent

\* C18: within the workflow of one group the steps run in the order fetch,
\* generate, send to the group, send to the community groups, advance the
\* watermark: nothing is sent before the generation succeeded, and the watermark
\* is written only once every send of the cycle was attempted or abandoned.
C18_StepsInOrder ==
    []C18_OrderState /\ [][C18_OrderStep]_vars

\* C18 witness: a cycle sent the summary to the group and to both community
\* groups, then advanced the watermark.
C18_Witness ==
    \E g \in tasks :
        /\ t[g].genOK
        /\ t[g].mainSend = "ok"
        /\ community[g] = 2
        /\ t[g].cgSent = <<"ok", "ok">>
        /\ t[g].advances = 1
        /\ t[g].pc = "done"

\* The field of a loaded group is never behind its committed value nor ahead of
\* the clock.
C19_WatermarkState ==
    \A g \in Groups :
        /\ committed_sync[g] <= last_summary_sync[g]
        /\ last_summary_sync[g] <= clock

\* A cycle that writes the watermark replaces it by a value that is not smaller,
\* and the committed watermark never decreases.
C19_WatermarkStep ==
    \A g \in Groups :
        /\ committed_sync'[g] >= committed_sync[g]
        /\ (g \in tasks /\ g \in tasks' /\ t'[g].advances > t[g].advances) =>
              /\ last_summary_sync'[g] >= last_summary_sync[g]
              /\ last_summary_sync'[g] >= committed_sync[g]
              /\ last_summary_sync'[g] >= t[g].sync0
        /\ (last_summary_sync'[g] < last_summary_sync[g]) =>
              (sched_pc # "gather" /\ last_summary_sync'[g] = committed_sync[g])

\* C19: over every sequence of scheduled cycles, with the per-group units of a run
\* interleaved, last_summary_sync of every group never decreases while the clock
\* does not: no cycle writes a value smaller than the one it replaces.
C19_WatermarkMonotonic ==
    []C19_WatermarkState /\ [][C19_WatermarkStep]_vars

\* C19 witness: two units of one run both advanced their watermark, one of them
\* past a value an earlier moment had left, and it is committed.
C19_Witness ==
    \E g \in tasks, h \in tasks :
        /\ g # h
        /\ t[g].advances = 1
        /\ t[h].advances = 1
        /\ t[g].sync0 < last_summary_sync[g]
        /\ committed_sync[g] = last_summary_sync[g]

\* C20: the watermark is the boundary of summarized activity: every message of a
\* group that the assistant did not send and that is stamped earlier than the
\* group's stored last_summary_sync (and not earlier than its initial value) was
\* part of the input of a summary generation that succeeded.
C20_WatermarkIsBoundary ==
    \A g \in Groups : \A i \in 1..Len(msgs[g]) :
        (/\ ~msgs[g][i].mine
         /\ msgs[g][i].ts >= 0
         /\ msgs[g][i].ts < committed_sync[g])
        => i \in summarized[g]

\* C21: a message that was part of the input of a scheduled generation that
\* succeeded is never part of the input of the generation of a later cycle of the
\* same group, whatever became of the sends of that summary. (No message is
\* stamped later than the clock of the fetch that finds it.)
C21_NeverSummarizedTwice ==
    /\ \A g \in Groups : \A i \in 1..Len(msgs[g]) : msgs[g][i].ts <= clock
    /\ \A g \in tasks :
          t[g].pc = "gen" => t[g].fetched \cap summarized[g] = {}

\* C22: after a cycle that stopped below the threshold or whose generation failed
\* after all retries, the next cycle of the group fetches a set of messages that
\* holds every message the skipped cycle had fetched (and any new ones).
C22_SkippedWindowReconsidered ==
    \A g \in tasks :
        /\ (t[g].prevSkipped /\ t[g].pc \notin {"start", "query"}) =>
              /\ t[g].wmRead = t[g].sync0
              /\ t[g].queried => t[g].prevWindow \subseteq t[g].fetched
        /\ (t[g].prevSkipped /\ t[g].pc = "start") =>
              t[g].prevWindow \subseteq Qualifying(g, last_summary_sync[g])

\* C22 witness: a cycle found 14 messages and stopped; the next cycle fetched
\* them again together with a message stored since.
C22_Witness ==
    \E g \in tasks :
        /\ t[g].prevSkipped
        /\ Cardinality(t[g].prevWindow) = Threshold - 1
        /\ t[g].queried
        /\ t[g].prevWindow \subseteq t[g].fetched
        /\ Cardinality(t[g].fetched) = Threshold

\* A step of the running workflow of g leaves the managed flags, and the
\* watermark of every other group (field and committed value), as they were.
C23_FrameStep ==
    \A g \in tasks :
        (t[g].pc \notin {"none", "done", "raised"} /\ t'[g] # t[g]) =>
            /\ managed' = managed
            /\ \A h \in Groups \ {g} :
                  /\ last_summary_sync'[h] = last_summary_sync[h]
                  /\ committed_sync'[h] = committed_sync[h]

\* C23: under any interleaving of the per-group units of a run over the shared
\* session, the workflow of a group changes only that group's last_summary_sync:
\* it neither modifies nor commits with a changed value the watermark or the
\* managed flag of another group.
C23_OnlyOwnWatermark ==
    [][C23_FrameStep]_vars

\* What a run holds of the groups it did and did not enumerate.
C24_UnitsState ==
    /\ \A g \in Groups : ~managed[g] =>
          /\ g \notin tasks
          /\ t[g] = NoTask
          /\ summarized[g] = {}
          /\ g \notin dirty
          /\ last_summary_sync[g] = 0
          /\ committed_sync[g] = 0
    /\ \A g \in tasks : managed[g]
    /\ sched_pc \in {"gather", "done"} =>
          \A g \in Groups : managed[g] =>
              /\ g \in tasks
              /\ t[g].pc # "none"
              /\ t[g].jidCalls <= 1
              /\ t[g].advances <= 1
              /\ t[g].commits <= 1
              /\ (t[g].pc # "start") => t[g].jidCalls = 1

\* A unit that has ended does nothing more in its run: it changes only when the
\* next run creates the unit of the group anew.
C24_UnitsStep ==
    \A g \in Groups :
        (t[g].pc \in Ended /\ t'[g] # t[g]) =>
            /\ sched_pc # "gather"
            /\ t'[g].pc \in {"start", "none"}

\* C24: a fan-out run starts exactly one unit of work for each group whose managed
\* flag is set when the groups are enumerated and none for an unmanaged group: an
\* unmanaged group is never summarized and its watermark never changes, and no
\* managed group is processed twice in one run.
C24_OneUnitPerManagedGroup ==
    []C24_UnitsState /\ [][C24_UnitsStep]_vars

\* C24 witness: a run ended in which a managed group was summarized and its
\* watermark moved, beside an unmanaged group that nothing touched.
C24_Witness ==
    /\ sched_pc = "done"
    /\ \E g \in Groups, h \in Groups :
          /\ managed[g]
          /\ ~managed[h]
          /\ t[g].genOK
          /\ t[g].pc = "done"
          /\ committed_sync[g] > 0
          /\ Len(msgs[h]) > Threshold
          /\ committed_sync[h] = 0

\* C25: when every awaited remote call returns or raises, every workflow a run
\* has started ends, and the run ends after them: the generation is given up
\* after 6 attempts and no step of a workflow repeats without end.
C25_RunTerminates ==
    /\ \A g \in Groups : (t[g].pc = "start") ~> (t[g].pc \in Ended)
    /\ (sched_pc = "gather") ~> (sched_pc = "done")
    /\ [](\A g \in Groups : t[g].attempts < MaxAttempts)

\* C25 witness: a run ended in which a workflow had given up the generation on
\* its last attempt and a sibling had run to its commit.
C25_Witness ==
    /\ sched_pc = "done"
    /\ \E g \in tasks, h \in tasks :
          /\ g # h
          /\ t[g].pc = "done"
          /\ t[g].usedLastAttempt
          /\ t[g].engineErr # NoError
          /\ t[h].pc = "done"
          /\ t[h].commits = 1


====
